---- MODULE Spec2Model ----
(***************************************************************************)
(* Model of backend/main.py: the anomaly detection HTTP service.           *)
(*                                                                         *)
(* State: the process-wide model and scaler, the four artifact files on    *)
(* disk, the default dataset file, the requests suspended at their         *)
(* `await file.read()`, and the response of the last completed request;    *)
(* beside them a history of the start and of the last successful /train,   *)
(* and the file the loaders are applied to with the frames they produce.   *)
(*                                                                         *)
(* The handlers are coroutines on one event loop: a handler runs without   *)
(* interruption from one await to the next.  The only await of the file is *)
(* `await file.read()` in predict_anomalies and train_model.               *)
(*                                                                         *)
(* The numerical libraries are outside the repository.  They are modelled  *)
(* by deterministic stand-ins on small integers: the scaler subtracts the  *)
(* (integer) mean of its training readings, the detector remembers the     *)
(* largest distance from zero it was fit on, decision_function is that     *)
(* limit minus the distance, and predict is -1 exactly when                *)
(* decision_function is negative.  Every row of the modelled datasets      *)
(* carries one reading in all feature columns, so the first feature column *)
(* stands for the feature matrix.                                          *)
(***************************************************************************)
EXTENDS Integers, Sequences, FiniteSets, TLC

\* ------------------------------------------------------------------ bounds

\* Longest row list of the files the loaders are applied to.
MaxRows == 2

\* Longest row list of the files uploaded to /predict and /train.
MaxUploadRows == 1

\* Most requests suspended at `await file.read()` at one time.
MaxPending == 1

\* The cap of get_anomalies on the anomalies list.
max_anomalies == 1000

\* ------------------------------------------------------------- file contents

features ==
  << "Global_active_power", "Global_reactive_power", "Voltage",
     "Global_intensity", "Sub_metering_1", "Sub_metering_2", "Sub_metering_3" >>

FeatureSet == { features[i] : i \in DOMAIN features }

AllCols == FeatureSet \cup {"Date", "Time"}

\* A cell of a data frame: a number, a string, a timestamp or missing (NaN/NaT).
Num(n) == [k |-> "num", n |-> n, s |-> ""]
Str(s) == [k |-> "str", n |-> 0, s |-> s]
Ts(d) == [k |-> "ts", n |-> d, s |-> ""]
NaN == [k |-> "nan", n |-> 0, s |-> ""]

\* The numeric literals of the modelled files and their values.
NumText == << "0", "1" >>

IsNumText(s) == \E i \in DOMAIN NumText : NumText[i] = s

NumValue(s) == (CHOOSE i \in DOMAIN NumText : NumText[i] = s) - 1

\* Date literals: two in the expected day/month/year form, one that is not.
DateText == << "01/01/2007", "03/01/2007" >>

DayOf == << 1, 3 >>

\* A row of a file: its Date text, the reading written in every other
\* column, and one column (`bad`, "" for none) whose cell holds `lit` instead.
Row(d, val, bad, lit) == [Date |-> d, val |-> val, bad |-> bad, lit |-> lit]

RawCell(row, col) ==
  IF col = "Date" THEN row.Date
  ELSE IF col = "Time" THEN "00:00:00"
  ELSE IF col = row.bad THEN row.lit
  ELSE row.val

\* A file's content: its delimiter, its header and its rows.
Content(delim, cols, rows) == [delim |-> delim, cols |-> cols, rows |-> rows]

\* ------------------------------------------------------------ pandas stand-ins

\* pd.read_csv(text, sep=sep, na_values=na): a frame [cols, rows], each row a
\* function from the columns to cells.  With another delimiter than the
\* file's the whole line is one column.
read_csv(content, sep, na) ==
  IF content.delim # sep
  THEN [cols |-> {"<line>"},
        rows |-> [i \in DOMAIN content.rows |-> [c \in {"<line>"} |-> Str("<line>")]]]
  ELSE [cols |-> content.cols,
        rows |-> [i \in DOMAIN content.rows |->
                    [c \in content.cols |->
                       LET t == RawCell(content.rows[i], c) IN
                       IF t \in na THEN NaN
                       ELSE IF IsNumText(t) THEN Num(NumValue(t))
                       ELSE Str(t)]]]

\* pd.to_datetime(Date + ' ' + Time, format='%d/%m/%Y %H:%M:%S', errors='coerce')
to_datetime(date, time) ==
  IF date.k = "str" /\ time.k = "str" /\ time.s = "00:00:00"
     /\ \E i \in DOMAIN DateText : DateText[i] = date.s
  THEN Ts(DayOf[CHOOSE i \in DOMAIN DateText : DateText[i] = date.s])
  ELSE NaN

\* A to_numeric that repairs what it cannot convert instead of marking it
\* missing.
to_numeric_zero_fill(cell) ==
  IF cell.k = "num" THEN cell
  ELSE IF cell.k = "str" /\ IsNumText(cell.s) THEN Num(NumValue(cell.s))
  ELSE Num(0)

\* pd.to_numeric(cell, errors='coerce')
to_numeric(cell) ==
  IF cell.k = "num" THEN cell
  ELSE IF cell.k = "str" /\ IsNumText(cell.s) THEN Num(NumValue(cell.s))
  ELSE NaN

\* df.dropna(): the rows with no missing cell.
dropna(df) ==
  LET Complete(r) == \A c \in df.cols : r[c].k # "nan"
  IN [cols |-> df.cols, rows |-> SelectSeq(df.rows, Complete)]

\* The Date/Time merge of the loaders: lines 75-77, 134-136, 224-226.
MergeDatetime(df) ==
  IF "Date" \in df.cols /\ "Time" \in df.cols
  THEN LET cols == (df.cols \ {"Date", "Time"}) \cup {"Datetime"}
       IN [cols |-> cols,
           rows |-> [i \in DOMAIN df.rows |->
                       [c \in cols |->
                          IF c = "Datetime"
                          THEN to_datetime(df.rows[i]["Date"], df.rows[i]["Time"])
                          ELSE df.rows[i][c]]]]
  ELSE df

\* The numeric coercion of the loaders: lines 80-82, 139-141, 229-231.
CoerceNumeric(df) ==
  [cols |-> df.cols,
   rows |-> [i \in DOMAIN df.rows |->
               [c \in df.cols |->
                  IF c # "Datetime" THEN to_numeric(df.rows[i][c])
                  ELSE df.rows[i][c]]]]

NoFrame == [cols |-> {}, rows |-> << >>]

\* load_default_dataset(): None when the file is absent, else the frame.
\* `file` is [present, content].
load_default_dataset(file) ==
  IF ~file.present
  THEN [none |-> TRUE, df |-> NoFrame]
  ELSE [none |-> FALSE,
        df |-> dropna(CoerceNumeric(MergeDatetime(
                 read_csv(file.content, ";", {"?"}))))]

\* The upload branch of predict_anomalies (lines 121-144) and of train_model
\* (lines 212-234).  `upload` is [ext, content]; status 400 is the
\* HTTPException raised for an unsupported extension.
LoadUpload(upload) ==
  IF upload.ext = ".csv"
  THEN [status |-> 200,
        df |-> dropna(CoerceNumeric(MergeDatetime(
                 read_csv(upload.content, ",", {}))))]
  ELSE IF upload.ext = ".txt"
  THEN [status |-> 200,
        df |-> dropna(CoerceNumeric(MergeDatetime(
                 read_csv(upload.content, ";", {"?"}))))]
  ELSE [status |-> 400, df |-> NoFrame]

\* ------------------------------------------------------------- artifacts

\* An artifact object: None, a scaler or a detector.  A fitted scaler keeps
\* the mean it subtracts in p, a fitted detector the largest distance from
\* zero of its training matrix.
None_ == [type |-> "None", fitted |-> FALSE, p |-> 0]

\* StandardScaler(): a scaler that has not been fit.
StandardScaler == [type |-> "scaler", fitted |-> FALSE, p |-> 0]

FittedScaler(mean) == [type |-> "scaler", fitted |-> TRUE, p |-> mean]

FittedForest(limit) == [type |-> "model", fitted |-> TRUE, p |-> limit]

Abs(x) == IF x < 0 THEN -x ELSE x

\* The sum and the largest distance from zero of X[lo..hi], by halves.
RECURSIVE SumOf(_, _, _)
SumOf(X, lo, hi) ==
  IF lo > hi THEN 0
  ELSE IF lo = hi THEN X[lo]
  ELSE LET mid == (lo + hi) \div 2 IN SumOf(X, lo, mid) + SumOf(X, mid + 1, hi)

RECURSIVE MaxAbsOf(_, _, _)
MaxAbsOf(X, lo, hi) ==
  IF lo > hi THEN 0
  ELSE IF lo = hi THEN Abs(X[lo])
  ELSE LET mid == (lo + hi) \div 2
           a == MaxAbsOf(X, lo, mid)
           b == MaxAbsOf(X, mid + 1, hi)
       IN IF a > b THEN a ELSE b

\* X = df[features]
FeatureMatrix(df) == [i \in DOMAIN df.rows |-> df.rows[i][features[1]].n]

\* scaler.transform(X): raises for a scaler that was never fit and for a
\* matrix without rows.
transform(scaler, X) ==
  IF scaler.type = "scaler" /\ scaler.fitted /\ Len(X) > 0
  THEN [ok |-> TRUE, X_scaled |-> [i \in DOMAIN X |-> X[i] - scaler.p]]
  ELSE [ok |-> FALSE, X_scaled |-> << >>]

\* scaler = StandardScaler(); X_scaled = scaler.fit_transform(X): raises for a
\* matrix without rows, and the scaler then stays unfit.
fit_transform(X) ==
  IF Len(X) > 0
  THEN LET s == FittedScaler(SumOf(X, 1, Len(X)) \div Len(X))
       IN [ok |-> TRUE, scaler |-> s, X_scaled |-> transform(s, X).X_scaled]
  ELSE [ok |-> FALSE, scaler |-> StandardScaler, X_scaled |-> << >>]

\* IsolationForest(n_estimators=100, contamination=0.01, random_state=42).fit
IsolationForestFit(X_scaled) == FittedForest(MaxAbsOf(X_scaled, 1, Len(X_scaled)))

\* model.decision_function(x): negative for an outlier.
decision_function(model, x) == model.p - Abs(x)

\* model.predict(x): -1 is anomaly, 1 is normal.
predict(model, x) == IF decision_function(model, x) < 0 THEN -1 ELSE 1

\* ------------------------------------------------------------- model store

DEFAULT_MODEL_FILE == "isolation_forest_model.pkl"
DEFAULT_SCALER_FILE == "scaler.pkl"
MODEL_PATH_MODEL == "models/isolation_forest_model.pkl"
MODEL_PATH_SCALER == "models/scaler.pkl"

Paths == {DEFAULT_MODEL_FILE, DEFAULT_SCALER_FILE, MODEL_PATH_MODEL, MODEL_PATH_SCALER}

\* A file on disk: absent, unreadable by joblib, or a pickled object.
Absent == [k |-> "absent", obj |-> None_]
Corrupt == [k |-> "corrupt", obj |-> None_]
Pickle(obj) == [k |-> "pickle", obj |-> obj]

\* os.path.exists(path)
exists(file) == file.k # "absent"

\* joblib.load(path) returns (it raises on a file it cannot deserialize).
loads(file) == file.k = "pickle"

\* A load_model that turns to the models directory also when a primary file
\* does not deserialize.
load_model_fallthrough(d) ==
  IF loads(d[DEFAULT_MODEL_FILE]) /\ loads(d[DEFAULT_SCALER_FILE])
  THEN << d[DEFAULT_MODEL_FILE].obj, d[DEFAULT_SCALER_FILE].obj >>
  ELSE IF loads(d[MODEL_PATH_MODEL]) /\ loads(d[MODEL_PATH_SCALER])
  THEN << d[MODEL_PATH_MODEL].obj, d[MODEL_PATH_SCALER].obj >>
  ELSE << None_, None_ >>

\* load_model(): (model, scaler) or (None, None).
load_model(d) ==
  IF exists(d[DEFAULT_MODEL_FILE]) /\ exists(d[DEFAULT_SCALER_FILE])
  THEN IF loads(d[DEFAULT_MODEL_FILE]) /\ loads(d[DEFAULT_SCALER_FILE])
       THEN << d[DEFAULT_MODEL_FILE].obj, d[DEFAULT_SCALER_FILE].obj >>
       ELSE << None_, None_ >>
  ELSE IF exists(d[MODEL_PATH_MODEL]) /\ exists(d[MODEL_PATH_SCALER])
  THEN IF loads(d[MODEL_PATH_MODEL]) /\ loads(d[MODEL_PATH_SCALER])
       THEN << d[MODEL_PATH_MODEL].obj, d[MODEL_PATH_SCALER].obj >>
       ELSE << None_, None_ >>
  ELSE << None_, None_ >>

\* ------------------------------------------------------- prediction shaping

\* Lines 155-166, 335-346, 427-438: the rows with their anomaly flag (1 means
\* anomaly) and score, or the exception of the scaler.
Score(mdl, scl, df) ==
  LET X == FeatureMatrix(df)
      t == transform(scl, X)
  IN IF ~t.ok \/ ~mdl.fitted
     THEN [ok |-> FALSE, rows |-> << >>]
     ELSE [ok |-> TRUE,
           rows |-> [i \in DOMAIN df.rows |->
                       [row |-> df.rows[i],
                        anomaly |-> IF predict(mdl, t.X_scaled[i]) = -1 THEN 1 ELSE 0,
                        anomaly_score |-> decision_function(mdl, t.X_scaled[i])]]]

\* anomaly_df = df[df['anomaly'] == 1]
AnomalyRows(rows) ==
  LET Flagged(r) == r.anomaly = 1 IN SelectSeq(rows, Flagged)

\* anomaly_df.head(n)
head(rows, n) == IF Len(rows) <= n THEN rows ELSE SubSeq(rows, 1, n)

\* One entry of the anomalies list (lines 173-183, 364-374, 445-455).
AnomalyData(cols, r) ==
  [datetime |-> IF "Datetime" \in cols THEN r.row["Datetime"] ELSE NaN,
   readings |-> [f \in FeatureSet |-> r.row[f].n],
   anomaly_score |-> r.anomaly_score]

\* (total_anomalies / total_records) * 100 if total_records > 0 else 0, kept
\* as an exact fraction.
Percentage(total_anomalies, total_records) ==
  IF total_records > 0
  THEN [num |-> total_anomalies * 100, den |-> total_records]
  ELSE [num |-> 0, den |-> 1]

\* df.sort_values(by=feature_filter, ascending=False), over the readings
\* v, v-1, .., 0.
RECURSIVE SortDescending(_, _, _)
SortDescending(rows, col, v) ==
  LET Has(r) == r.row[col].n = v
  IN IF v < 0 THEN << >>
     ELSE SelectSeq(rows, Has) \o SortDescending(rows, col, v - 1)

\* ------------------------------------------------------------------ responses

NoArg == "<None>"

\* The request of a response: the upload's name extension, delimiter and
\* header (file = FALSE when none was sent) and the query arguments.
Request(file, ext, delim, cols, start_date, end_date, feature_filter, sample_size) ==
  [file |-> file, ext |-> ext, delim |-> delim, cols |-> cols,
   start_date |-> start_date, end_date |-> end_date,
   feature_filter |-> feature_filter, sample_size |-> sample_size]

NoUpload == Request(FALSE, "", "", {}, NoArg, NoArg, NoArg, 0)

UploadOf(up) ==
  Request(TRUE, up.ext, up.content.delim, up.content.cols, NoArg, NoArg, NoArg, 0)

Query(start_date, end_date, feature_filter) ==
  Request(FALSE, "", "", {}, start_date, end_date, feature_filter, 0)

\* A response under construction.  status 0 stands for an exception that is
\* no HTTPException; `wrapped` is the status of an HTTPException that a
\* handler's `except Exception` caught and replaced; `ran` tells that the
\* scaler and the detector were invoked; used* is the pair the request
\* worked with, start* the pair in memory when the request began.
Response(op, req, startModel, startScaler) ==
  [op |-> op, status |-> 200, detail |-> "", wrapped |-> 0, missing |-> {},
   anomalies |-> << >>, anomaly_count |-> 0, total_records |-> 0,
   anomaly_percentage |-> [num |-> 0, den |-> 1],
   req |-> req, ran |-> FALSE,
   usedModel |-> None_, usedScaler |-> None_,
   startModel |-> startModel, startScaler |-> startScaler]

Raise(r, status, detail) == [r EXCEPT !.status = status, !.detail = detail]

\* `except Exception as e: raise HTTPException(status_code=500, ...)` of
\* predict_anomalies (198-199), train_model (273-274) and
\* analyze_default_dataset (470-471): it also catches the HTTPExceptions
\* raised inside the try block.
ExceptException(r) ==
  IF r.status = 200 THEN r
  ELSE [r EXCEPT !.status = 500, !.wrapped = r.status]

\* `except HTTPException: raise` followed by `except Exception` of
\* get_anomalies (389-396).
ExceptHTTPExceptionFirst(r) ==
  IF r.status = 0 THEN [r EXCEPT !.status = 500] ELSE r

\* The return of the three prediction handlers (lines 186-196, 377-387,
\* 458-468).
Return(r, anomalies, total_records) ==
  [r EXCEPT !.anomalies = anomalies,
            !.anomaly_count = Len(anomalies),
            !.total_records = total_records,
            !.anomaly_percentage = Percentage(Len(anomalies), total_records)]

\* ------------------------------------------------------------------- inputs

LowRow == Row("01/01/2007", "0", "", "")

HighRow == Row("03/01/2007", "1", "", "")

QuestionRow == Row("01/01/2007", "0", "Voltage", "?")

\* The rows of the enumerated files: a low and a high reading, a row with a
\* "?" and one with a word in a feature column, and a row whose Date is not
\* in the day/month/year form.
RowKinds ==
  { LowRow, HighRow, QuestionRow,
    Row("03/01/2007", "1", "Sub_metering_3", "abc"),
    Row("2007-01-05", "0", "", "") }

RowLists(kinds, longest) == UNION { [1..n -> kinds] : n \in 0..longest }

\* Headers: complete, one feature missing, no Date/Time, Date without Time.
ColSets == { AllCols, AllCols \ {"Voltage"}, FeatureSet, AllCols \ {"Time"} }

\* File name extension and the delimiter of the content.
Formats ==
  { [ext |-> ".csv", delim |-> ","], [ext |-> ".txt", delim |-> ";"],
    [ext |-> ".csv", delim |-> ";"], [ext |-> ".json", delim |-> ";"] }

\* The files the loaders are applied to.
Files ==
  { [ext |-> f.ext, content |-> Content(f.delim, c, rows)] :
      f \in Formats, c \in ColSets, rows \in RowLists(RowKinds, MaxRows) }

\* The files uploaded to /predict and /train: semicolon files with up to
\* MaxUploadRows good rows or a single "?" row, two comma files, files without the
\* Voltage column, and a file with another extension.
Uploads ==
  { [ext |-> ".txt", content |-> Content(";", AllCols, rows)] :
      rows \in RowLists({LowRow, HighRow}, MaxUploadRows) \cup { << QuestionRow >> } }
  \cup { [ext |-> ".csv", content |-> Content(",", AllCols, rows)] :
           rows \in { << LowRow >>, << QuestionRow >> } }
  \cup { [ext |-> f.ext, content |-> Content(f.delim, AllCols \ {"Voltage"}, << LowRow >>)] :
           f \in { [ext |-> ".csv", delim |-> ","], [ext |-> ".txt", delim |-> ";"] } }
  \cup { [ext |-> ".json", content |-> Content(";", AllCols, << LowRow >>)] }

NoContent == Content(";", {}, << >>)

\* The default dataset files the process may find: none, a file with good
\* and bad rows, a file whose only row has a "?", and a file of
\* max_anomalies + 1 high readings.
DefaultFiles ==
  << [present |-> FALSE, content |-> NoContent],
     [present |-> TRUE, content |-> Content(";", AllCols, << LowRow, QuestionRow, HighRow >>)],
     [present |-> TRUE, content |-> Content(";", AllCols, << QuestionRow >>)],
     [present |-> TRUE,
      content |-> Content(";", AllCols, [i \in 1..(max_anomalies + 1) |-> HighRow])] >>

\* The default files without the long one.
SmallDefaultFiles == { i \in DOMAIN DefaultFiles : Len(DefaultFiles[i].content.rows) <= max_anomalies }

\* load_default_dataset() of each default file.
LoadedDefault == [i \in DOMAIN DefaultFiles |-> load_default_dataset(DefaultFiles[i])]

\* Query dates: two naive dates, one with a UTC offset; any other text does
\* not parse.
QueryDateText == << "2007-01-02", "2007-01-09", "2007-01-02T00:00:00Z" >>

QueryDay == << 2, 9, 2 >>

QueryAware == << FALSE, FALSE, TRUE >>

\* pd.to_datetime(text, errors='coerce')
pd_to_datetime(text) ==
  IF \E i \in DOMAIN QueryDateText : QueryDateText[i] = text
  THEN LET i == CHOOSE j \in DOMAIN QueryDateText : QueryDateText[j] = text
       IN [nat |-> FALSE, day |-> QueryDay[i], tz |-> QueryAware[i]]
  ELSE [nat |-> TRUE, day |-> 0, tz |-> FALSE]

DateArgs == { NoArg, "", "soon", "2007-01-02", "2007-01-09", "2007-01-02T00:00:00Z" }

\* The queries of GET /anomalies: every start_date alone, two end_dates
\* alone, two feature filters alone, and a late start_date with an end_date
\* or a feature filter.
Queries ==
  { Query(a, NoArg, NoArg) : a \in DateArgs }
  \cup { Query(NoArg, a, NoArg) : a \in {"soon", "2007-01-02"} }
  \cup { Query(NoArg, NoArg, f) : f \in {"Voltage", "Price"} }
  \cup { Query("2007-01-09", a, NoArg) : a \in {"soon", "2007-01-09"} }
  \cup { Query("2007-01-09", NoArg, "Voltage") }

\* sample_size: None and 0 are both false in `if sample_size and ...`.
SampleSizes == { -1, 0, 1 }

\* Which of the four joblib.dump calls of train_model raises (0: none).  The
\* call that raises leaves its file as it was.
Faults == 0..4

\* ------------------------------------------------------------------ handlers

\* Lines 116-144 and 207-234: the frame of a /predict or /train request, or
\* the HTTPException its loading raises.
DefaultFrame(dataFile) ==
  LET d == LoadedDefault[dataFile]
  IN IF d.none
     THEN [status |-> 400, df |-> NoFrame,
           detail |-> "No file provided and default dataset not found"]
     ELSE [status |-> 200, df |-> d.df, detail |-> ""]

UploadFrame(up) ==
  LET u == LoadUpload(up)
  IN [status |-> u.status, df |-> u.df,
      detail |-> IF u.status = 200 THEN "" ELSE "Unsupported file format"]

\* missing_features = [f for f in features if f not in df.columns]
MissingFeatures(df) == { f \in FeatureSet : f \notin df.cols }

\* The try block of predict_anomalies, lines 114-196.
predict_try(r, mdl, scl, frame) ==
  IF frame.status # 200 THEN Raise(r, frame.status, frame.detail)
  ELSE
    LET df == frame.df
    IN IF MissingFeatures(df) # {}
       THEN [Raise(r, 400, "Missing required features")
               EXCEPT !.missing = MissingFeatures(df)]
       ELSE
         LET sc == Score(mdl, scl, df)
             r2 == [r EXCEPT !.ran = TRUE, !.usedModel = mdl, !.usedScaler = scl]
             anomaly_df == AnomalyRows(sc.rows)
         IN IF ~sc.ok THEN Raise(r2, 0, "exception")
            ELSE Return(r2,
                        [i \in DOMAIN anomaly_df |-> AnomalyData(df.cols, anomaly_df[i])],
                        Len(df.rows))

\* predict_anomalies after its check of the model, lines 114-199.
predict_anomalies(r, mdl, scl, frame) ==
  ExceptException(predict_try(r, mdl, scl, frame))

\* Lines 249-259 of train_model: the scaler the request leaves in the global
\* and the scaled matrix, or the exception of the second fit_transform.
TrainScaler(X, d, scl) ==
  LET f == d[DEFAULT_SCALER_FILE]
      first ==
        IF exists(f)
        THEN IF loads(f)
             THEN [ok |-> transform(f.obj, X).ok, scaler |-> f.obj,
                   X_scaled |-> transform(f.obj, X).X_scaled]
             ELSE [ok |-> FALSE, scaler |-> scl, X_scaled |-> << >>]
        ELSE fit_transform(X)
  IN IF first.ok THEN first ELSE fit_transform(X)

SaveOrder ==
  << DEFAULT_MODEL_FILE, DEFAULT_SCALER_FILE, MODEL_PATH_MODEL, MODEL_PATH_SCALER >>

\* Lines 266-269: the four joblib.dump calls, call number `fault` raising.
Save(d, mdl, scl, fault) ==
  [ok |-> fault = 0,
   disk |-> [p \in Paths |->
               LET k == CHOOSE j \in DOMAIN SaveOrder : SaveOrder[j] = p
                   obj == IF p \in {DEFAULT_MODEL_FILE, MODEL_PATH_MODEL} THEN mdl ELSE scl
               IN IF fault = 0 \/ k < fault THEN Pickle(obj) ELSE d[p]]]

\* The try block of train_model, lines 205-271: the response and the globals
\* and files it leaves.
train_try(r, mdl, scl, d, frame, fault) ==
  IF frame.status # 200
  THEN [resp |-> Raise(r, frame.status, frame.detail),
        model |-> mdl, scaler |-> scl, disk |-> d]
  ELSE
    LET df == frame.df
    IN IF MissingFeatures(df) # {}
       THEN [resp |-> [Raise(r, 400, "Missing required features")
                         EXCEPT !.missing = MissingFeatures(df)],
             model |-> mdl, scaler |-> scl, disk |-> d]
       ELSE
         LET s == TrainScaler(FeatureMatrix(df), d, scl)
             m == IsolationForestFit(s.X_scaled)
             saved == Save(d, m, s.scaler, fault)
             r2 == [r EXCEPT !.ran = TRUE, !.usedModel = m, !.usedScaler = s.scaler]
         IN IF ~s.ok
            THEN [resp |-> Raise(r, 0, "exception"),
                  model |-> mdl, scaler |-> s.scaler, disk |-> d]
            ELSE [resp |-> IF saved.ok
                           THEN [r2 EXCEPT !.detail = "Model trained and saved successfully"]
                           ELSE Raise(r2, 0, "exception"),
                  model |-> m, scaler |-> s.scaler, disk |-> saved.disk]

\* train_model, lines 205-274.
train_model(r, mdl, scl, d, frame, fault) ==
  LET t == train_try(r, mdl, scl, d, frame, fault)
  IN [t EXCEPT !.resp = ExceptException(t.resp)]

\* Lines 285-289 and 407-411: the pair the request works with.
EnsureModel(mdl, scl, d) ==
  IF mdl = None_ \/ scl = None_ THEN load_model(d) ELSE << mdl, scl >>

\* A start_date filter with the comparison reversed.
StartDateFilterReversed(df, start_date) ==
  IF start_date \in {NoArg, ""} \/ "Datetime" \notin df.cols
  THEN [ok |-> TRUE, df |-> df]
  ELSE LET start_datetime == pd_to_datetime(start_date)
           Keep(row) == row["Datetime"].n <= start_datetime.day
       IN IF start_datetime.nat \/ start_datetime.tz
          THEN [ok |-> FALSE, df |-> df]
          ELSE [ok |-> TRUE, df |-> [cols |-> df.cols, rows |-> SelectSeq(df.rows, Keep)]]

\* Lines 298-308: the start_date filter.
StartDateFilter(df, start_date) ==
  IF start_date \in {NoArg, ""} \/ "Datetime" \notin df.cols
  THEN [ok |-> TRUE, df |-> df]
  ELSE LET start_datetime == pd_to_datetime(start_date)
           Keep(row) == row["Datetime"].n >= start_datetime.day
       IN IF start_datetime.nat \/ start_datetime.tz
          THEN [ok |-> FALSE, df |-> df]
          ELSE [ok |-> TRUE, df |-> [cols |-> df.cols, rows |-> SelectSeq(df.rows, Keep)]]

\* Lines 310-320: the end_date filter.
EndDateFilter(df, end_date) ==
  IF end_date \in {NoArg, ""} \/ "Datetime" \notin df.cols
  THEN [ok |-> TRUE, df |-> df]
  ELSE LET end_datetime == pd_to_datetime(end_date)
           Keep(row) == row["Datetime"].n <= end_datetime.day
       IN IF end_datetime.nat \/ end_datetime.tz
          THEN [ok |-> FALSE, df |-> df]
          ELSE [ok |-> TRUE, df |-> [cols |-> df.cols, rows |-> SelectSeq(df.rows, Keep)]]

\* The try block of get_anomalies, lines 291-387.
anomalies_try(r, mdl, scl, dataFile) ==
  LET d == LoadedDefault[dataFile]
      a == StartDateFilter(d.df, r.req.start_date)
      b == EndDateFilter(a.df, r.req.end_date)
      df == b.df
      sc == Score(mdl, scl, df)
      r2 == [r EXCEPT !.ran = TRUE, !.usedModel = mdl, !.usedScaler = scl]
      sorted == IF r.req.feature_filter \in FeatureSet
                THEN SortDescending(sc.rows, r.req.feature_filter, Len(NumText) - 1)
                ELSE sc.rows
      anomaly_df == head(AnomalyRows(sorted), max_anomalies)
  IN IF d.none THEN Raise(r, 404, "Default dataset not found")
     ELSE IF ~a.ok THEN Raise(r, 400, "Invalid start_date format")
     ELSE IF ~b.ok THEN Raise(r, 400, "Invalid end_date format")
     ELSE IF Len(df.rows) = 0
     THEN [r EXCEPT !.anomalies = << >>, !.anomaly_count = 0, !.total_records = 0,
                    !.anomaly_percentage = [num |-> 0, den |-> 1]]
     ELSE IF MissingFeatures(df) # {} THEN Raise(r, 0, "exception")
     ELSE IF ~sc.ok THEN Raise(r2, 0, "exception")
     ELSE Return(r2,
                 [i \in DOMAIN anomaly_df |-> AnomalyData(df.cols, anomaly_df[i])],
                 Len(df.rows))

\* get_anomalies, lines 282-396: the response and the globals it leaves.
get_anomalies(r, mdl, scl, d, dataFile) ==
  LET pair == EnsureModel(mdl, scl, d)
  IN [resp |-> IF pair[1] = None_ \/ pair[2] = None_
               THEN Raise(r, 500, "Models not available")
               ELSE ExceptHTTPExceptionFirst(anomalies_try(r, pair[1], pair[2], dataFile)),
      model |-> pair[1], scaler |-> pair[2]]

\* The row orders df.sample(sample_size, random_state=42) may return: which
\* rows the seed picks is the library's business, so any selection of
\* sample_size different rows.  Without sampling, the rows as they are.
Samples(loaded, sample_size) ==
  IF ~loaded.none /\ sample_size > 0 /\ sample_size < Len(loaded.df.rows)
  THEN { f \in [1..sample_size -> DOMAIN loaded.df.rows] :
           \A i, j \in 1..sample_size : i # j => f[i] # f[j] }
  ELSE { [i \in DOMAIN loaded.df.rows |-> i] }

\* The try block of analyze_default_dataset, lines 413-468.
analyze_try(r, mdl, scl, dataFile, pick) ==
  LET d == LoadedDefault[dataFile]
      df == [cols |-> d.df.cols, rows |-> [i \in DOMAIN pick |-> d.df.rows[pick[i]]]]
      sc == Score(mdl, scl, df)
      r2 == [r EXCEPT !.ran = TRUE, !.usedModel = mdl, !.usedScaler = scl]
      anomaly_df == AnomalyRows(sc.rows)
  IN IF d.none THEN Raise(r, 404, "Default dataset not found")
     ELSE IF MissingFeatures(df) # {} THEN Raise(r, 0, "exception")
     ELSE IF ~sc.ok THEN Raise(r2, 0, "exception")
     ELSE Return(r2,
                 [i \in DOMAIN anomaly_df |-> AnomalyData(df.cols, anomaly_df[i])],
                 Len(df.rows))

\* analyze_default_dataset, lines 404-471.
analyze_default_dataset(r, mdl, scl, d, dataFile, pick) ==
  LET pair == EnsureModel(mdl, scl, d)
  IN [resp |-> IF pair[1] = None_ \/ pair[2] = None_
               THEN Raise(r, 500, "Models not available")
               ELSE ExceptException(analyze_try(r, pair[1], pair[2], dataFile, pick)),
      model |-> pair[1], scaler |-> pair[2]]

\* -------------------------------------------------------------------- state

VARIABLES
  model,      \* the global `model`: None_ or a detector
  scaler,     \* the global `scaler`: None_ or a scaler
  disk,       \* the four artifact files
  dataFile,   \* which of DefaultFiles is at DEFAULT_DATA_FILE
  pending,    \* the requests suspended at `await file.read()`
  resp,       \* the response of the request that completed last
  hist,       \* history: whether line 94 loaded a pair, and the pair of the
              \* last /train that returned success
  loaded      \* a file and the frames the two loaders produced from it

vars == << model, scaler, disk, dataFile, pending, resp, hist, loaded >>

Disk(pm, ps, fm, fs) ==
  [p \in Paths |->
     IF p = DEFAULT_MODEL_FILE THEN pm
     ELSE IF p = DEFAULT_SCALER_FILE THEN ps
     ELSE IF p = MODEL_PATH_MODEL THEN fm
     ELSE fs]

\* The artifacts of an earlier training on low readings.
OldModel == FittedForest(0)

OldScaler == FittedScaler(0)

\* The artifacts of another earlier training, on high readings.
OtherModel == FittedForest(1)

OtherScaler == FittedScaler(1)

NoPair == << None_, None_ >>

\* The artifact files a process may find at its start: each absent,
\* unreadable, or a pickle; the pickles of the models directory are those of
\* the other training.
DiskInits ==
  { Disk(pm, ps, fm, fs) :
      pm \in {Absent, Corrupt, Pickle(OldModel)},
      ps \in {Absent, Corrupt, Pickle(OldScaler)},
      fm \in {Absent, Corrupt, Pickle(OtherModel)},
      fs \in {Absent, Corrupt, Pickle(OtherScaler)} }

\* Four of them: a fresh installation, the files of an earlier training, the
\* same with an unreadable primary model, and a lone primary scaler.
DiskStarts ==
  { Disk(Absent, Absent, Absent, Absent),
    Disk(Pickle(OldModel), Pickle(OldScaler), Pickle(OldModel), Pickle(OldScaler)),
    Disk(Corrupt, Pickle(OldScaler), Pickle(OldModel), Pickle(OldScaler)),
    Disk(Absent, Pickle(OldScaler), Absent, Absent) }

\* A file no loader was applied to yet.  `default` is what
\* load_default_dataset made of it, `upload` what the upload branch did.
Unloaded(ext, content) ==
  [ext |-> ext, content |-> content,
   default |-> [done |-> FALSE, df |-> NoFrame],
   upload |-> [done |-> FALSE, status |-> 0, df |-> NoFrame]]

\* Line 94 (`model, scaler = load_model()`) has run; no request has.
Booted(disks, files) ==
  /\ disk \in disks
  /\ model = load_model(disk)[1]
  /\ scaler = load_model(disk)[2]
  /\ dataFile \in files
  /\ pending = << >>
  /\ resp = Response("startup", NoUpload, None_, None_)
  /\ hist = [boot |-> load_model(disk) # NoPair, trained |-> NoPair]

Started(disks, files) ==
  /\ Booted(disks, files)
  /\ loaded = Unloaded("", NoContent)

Init == Started(DiskStarts, SmallDefaultFiles)

\* The history after a /train request that left t: a request that returned
\* success (line 271) installs its pair.
Trained(h, t) ==
  IF t.resp.status = 200 THEN [h EXCEPT !.trained = << t.model, t.scaler >>] ELSE h

RemoveAt(q, i) == SubSeq(q, 1, i - 1) \o SubSeq(q, i + 1, Len(q))

\* POST /predict without a file: the whole handler, it never suspends.
PredictDefault ==
  /\ resp' = IF model = None_ \/ scaler = None_
             THEN Raise(Response("predict", NoUpload, model, scaler), 500,
                        "Model not trained yet")
             ELSE predict_anomalies(Response("predict", NoUpload, model, scaler),
                                    model, scaler, DefaultFrame(dataFile))
  /\ UNCHANGED << model, scaler, disk, dataFile, pending, hist, loaded >>

\* POST /predict with a file whose read() returns without suspending the
\* handler: the whole handler.
PredictUpload ==
  \E up \in Uploads :
    /\ resp' = IF model = None_ \/ scaler = None_
               THEN Raise(Response("predict", UploadOf(up), model, scaler), 500,
                          "Model not trained yet")
               ELSE predict_anomalies(Response("predict", UploadOf(up), model, scaler),
                                      model, scaler, UploadFrame(up))
    /\ UNCHANGED << model, scaler, disk, dataFile, pending, hist, loaded >>

\* POST /train without a file: the whole handler.
TrainDefault ==
  \E fault \in Faults :
    LET t == train_model(Response("train", NoUpload, model, scaler), model, scaler,
                         disk, DefaultFrame(dataFile), fault)
    IN /\ resp' = t.resp
       /\ model' = t.model
       /\ scaler' = t.scaler
       /\ disk' = t.disk
       /\ hist' = Trained(hist, t)
       /\ UNCHANGED << dataFile, pending, loaded >>

\* POST /train with a file whose read() returns without suspending the
\* handler: the whole handler.
TrainUpload ==
  \E up \in Uploads : \E fault \in Faults :
    LET t == train_model(Response("train", UploadOf(up), model, scaler), model, scaler,
                         disk, UploadFrame(up), fault)
    IN /\ resp' = t.resp
       /\ model' = t.model
       /\ scaler' = t.scaler
       /\ disk' = t.disk
       /\ hist' = Trained(hist, t)
       /\ UNCHANGED << dataFile, pending, loaded >>

\* GET /anomalies: the whole handler.
GetAnomalies ==
  \E q \in Queries :
    LET t == get_anomalies(Response("anomalies", q, model, scaler), model, scaler,
                           disk, dataFile)
    IN /\ resp' = t.resp
       /\ model' = t.model
       /\ scaler' = t.scaler
       /\ UNCHANGED << disk, dataFile, pending, hist, loaded >>

\* GET /analyze-default-data: the whole handler.
AnalyzeDefaultData ==
  \E n \in SampleSizes : \E pick \in Samples(LoadedDefault[dataFile], n) :
    LET t == analyze_default_dataset(
               Response("analyze", [NoUpload EXCEPT !.sample_size = n], model, scaler),
               model, scaler, disk, dataFile, pick)
    IN /\ resp' = t.resp
       /\ model' = t.model
       /\ scaler' = t.scaler
       /\ UNCHANGED << disk, dataFile, pending, hist, loaded >>

Next ==
  \/ PredictDefault
  \/ PredictUpload
  \/ TrainDefault
  \/ TrainUpload
  \/ GetAnomalies
  \/ AnalyzeDefaultData

\* The service handling one request after the other.
Spec == Init /\ [][Next]_vars

\* ------------------------------------------------- requests that suspend

\* POST /predict with a file, up to `await file.read()` (lines 108-122).
PredictReceive ==
  /\ Len(pending) < MaxPending
  /\ IF model = None_ \/ scaler = None_
     THEN /\ resp' = Raise(Response("predict", NoUpload,
                                    model, scaler), 500, "Model not trained yet")
          /\ pending' = pending
     ELSE /\ pending' = Append(pending, [op |-> "predict", startModel |-> model,
                                         startScaler |-> scaler])
          /\ resp' = resp
  /\ UNCHANGED << model, scaler, disk, dataFile, hist, loaded >>

\* A /predict that, resumed, works with the pair it checked when it was
\* received.
PredictReadSnapshot ==
  \E i \in DOMAIN pending : \E up \in Uploads :
    /\ pending[i].op = "predict"
    /\ resp' = predict_anomalies(
                 Response("predict", UploadOf(up), pending[i].startModel,
                          pending[i].startScaler),
                 pending[i].startModel, pending[i].startScaler, UploadFrame(up))
    /\ pending' = RemoveAt(pending, i)
    /\ UNCHANGED << model, scaler, disk, dataFile, hist, loaded >>

\* POST /predict with a file, from the return of `await file.read()` on.
PredictRead ==
  \E i \in DOMAIN pending : \E up \in Uploads :
    /\ pending[i].op = "predict"
    /\ resp' = predict_anomalies(
                 Response("predict", UploadOf(up), pending[i].startModel,
                          pending[i].startScaler),
                 model, scaler, UploadFrame(up))
    /\ pending' = RemoveAt(pending, i)
    /\ UNCHANGED << model, scaler, disk, dataFile, hist, loaded >>

\* POST /train with a file, up to `await file.read()` (lines 203-212).
TrainReceive ==
  /\ Len(pending) < MaxPending
  /\ pending' = Append(pending, [op |-> "train", startModel |-> None_,
                                 startScaler |-> None_])
  /\ UNCHANGED << model, scaler, disk, dataFile, resp, hist, loaded >>

\* POST /train with a file, from the return of `await file.read()` on.
TrainRead ==
  \E i \in DOMAIN pending : \E up \in Uploads : \E fault \in Faults :
    LET t == train_model(Response("train", UploadOf(up), model, scaler),
                         model, scaler, disk, UploadFrame(up), fault)
    IN /\ pending[i].op = "train"
       /\ resp' = t.resp
       /\ model' = t.model
       /\ scaler' = t.scaler
       /\ disk' = t.disk
       /\ hist' = Trained(hist, t)
       /\ pending' = RemoveAt(pending, i)
       /\ UNCHANGED << dataFile, loaded >>

\* The service with uploads that suspend their handlers at the await, started
\* on the files of an earlier training and a default dataset none of whose
\* rows load.  A /train without a file never suspends: it is handled as a
\* whole while other requests are suspended.
InitConcurrent ==
  Started({Disk(Pickle(OldModel), Pickle(OldScaler), Pickle(OldModel), Pickle(OldScaler))},
          {3})

NextConcurrent ==
  \/ PredictReceive
  \/ PredictRead
  \/ TrainReceive
  \/ TrainRead
  \/ TrainDefault

SpecConcurrent == InitConcurrent /\ [][NextConcurrent]_vars

\* ------------------------------------------------- prediction on any start

\* The service answering prediction requests on the default dataset, the
\* long file included.
InitServe == Started(DiskStarts, DOMAIN DefaultFiles)

NextServe ==
  \/ PredictDefault
  \/ GetAnomalies
  \/ AnalyzeDefaultData

SpecServe == InitServe /\ [][NextServe]_vars

\* ----------------------------------------------------- any artifact files

\* The same service started on any combination of artifact files.
InitStore == Started(DiskInits, SmallDefaultFiles)

NextStore ==
  \/ PredictDefault
  \/ GetAnomalies
  \/ AnalyzeDefaultData

SpecStore == InitStore /\ [][NextStore]_vars

\* ------------------------------------------------------------- the loaders

\* The two loaders applied to a file: the file is drawn at the start.
InitLoader ==
  /\ Booted({Disk(Absent, Absent, Absent, Absent)}, {1})
  /\ loaded \in { Unloaded(f.ext, f.content) : f \in Files }

\* load_default_dataset() with the file's content at DEFAULT_DATA_FILE.
LoadDefaultFile ==
  /\ ~loaded.default.done
  /\ loaded' = [loaded EXCEPT
                  !.default = [done |-> TRUE,
                               df |-> load_default_dataset(
                                        [present |-> TRUE, content |-> loaded.content]).df]]
  /\ UNCHANGED << model, scaler, disk, dataFile, pending, resp, hist >>

\* The upload branch of /predict and /train applied to the file.
LoadUploadedFile ==
  /\ ~loaded.upload.done
  /\ loaded' = [loaded EXCEPT
                  !.upload = [done |-> TRUE,
                              status |-> LoadUpload(loaded).status,
                              df |-> LoadUpload(loaded).df]]
  /\ UNCHANGED << model, scaler, disk, dataFile, pending, resp, hist >>

NextLoader ==
  \/ LoadDefaultFile
  \/ LoadUploadedFile

SpecLoader == InitLoader /\ [][NextLoader]_vars

\* ------------------------------------------------------------------- claims

PredictionOps == {"predict", "anomalies", "analyze"}

\* The request of the last response had a pair to work with: it did not end
\* at "Model not trained yet" or "Models not available".
PairAvailable ==
  resp.detail \notin {"Model not trained yet", "Models not available"}

\* The header of the last request's upload lacks a feature column.
LacksFeature ==
  /\ resp.op \in {"predict", "train"}
  /\ resp.req.file
  /\ resp.req.ext \in {".csv", ".txt"}
  /\ FeatureSet \ resp.req.cols # {}
  /\ resp.op = "predict" => resp.startModel # None_ /\ resp.startScaler # None_

\* C1: a /predict (with a pair in memory) or /train request whose uploaded
\* .csv or .txt file lacks a feature column is answered with status 400 and
\* a detail naming the missing columns, never with a 5xx.
C1_MissingFeatureIs400 ==
  LacksFeature =>
    /\ resp.status = 400
    /\ resp.detail = "Missing required features"
    /\ resp.missing = FeatureSet \ resp.req.cols

\* C2: while the process started without a loadable pair and no /train has
\* returned success, a /predict request is answered with status 500 and
\* leaves the globals as they were.
C2_PredictBeforeTrainingIs500 ==
  (resp.op = "predict" /\ ~hist.boot /\ hist.trained = NoPair) =>
    /\ resp.status = 500
    /\ model = resp.startModel
    /\ scaler = resp.startScaler

\* The rows of the default dataset as loaded.
DefaultRows == LoadedDefault[dataFile].df.rows

\* The last request evaluated a dataset without records: the default dataset
\* with every row dropped by the loader or filtered out by a late start_date.
EvaluatedNothing ==
  /\ resp.op \in PredictionOps
  /\ ~resp.req.file
  /\ PairAvailable
  /\ ~LoadedDefault[dataFile].none
  /\ \/ Len(DefaultRows) = 0
     \/ /\ resp.op = "anomalies"
        /\ resp.req.start_date = "2007-01-09"
        /\ resp.req.end_date = NoArg

\* C3: a successful prediction response over records has
\* anomaly_percentage = anomaly_count / total_records * 100, and a request
\* that evaluates a dataset without records succeeds with total_records = 0
\* and anomaly_percentage = 0.
C3_PercentageAndEmptyDataset ==
  /\ (resp.op \in PredictionOps /\ resp.status = 200 /\ resp.total_records > 0) =>
       resp.anomaly_percentage.num * resp.total_records
         = resp.anomaly_count * 100 * resp.anomaly_percentage.den
  /\ EvaluatedNothing =>
       /\ resp.status = 200
       /\ resp.total_records = 0
       /\ resp.anomaly_percentage.num = 0

\* The entries of an anomalies list.
Entries(anomalies) == { anomalies[i] : i \in DOMAIN anomalies }

\* C4: a /predict without a file and a /anomalies without filters that
\* follows it, both successful on the same default dataset and the same
\* pair, list the same rows with the same scores and report the same
\* anomaly_count, total_records and anomaly_percentage.
C4_PredictAndAnomaliesAgree ==
  [][ ( /\ resp.op = "predict" /\ ~resp.req.file /\ resp.status = 200
        /\ resp'.op = "anomalies" /\ resp'.req = Query(NoArg, NoArg, NoArg)
        /\ resp'.status = 200
        /\ resp'.usedModel = resp.usedModel /\ resp'.usedScaler = resp.usedScaler )
      => ( /\ Entries(resp'.anomalies) = Entries(resp.anomalies)
           /\ resp'.anomaly_count = resp.anomaly_count
           /\ resp'.total_records = resp.total_records
           /\ resp'.anomaly_percentage = resp.anomaly_percentage ) ]_vars

\* The last request was a /anomalies with a pair and the default dataset at
\* hand, and its start_date parses to a time after every loaded record.
StartAfterAllRecords ==
  /\ resp.op = "anomalies"
  /\ PairAvailable
  /\ ~LoadedDefault[dataFile].none
  /\ resp.req.start_date \notin {NoArg, ""}
  /\ ~pd_to_datetime(resp.req.start_date).nat
  /\ \A i \in DOMAIN DefaultRows :
       DefaultRows[i]["Datetime"].n < pd_to_datetime(resp.req.start_date).day

\* The response of line 324: nothing evaluated, and neither the scaler nor
\* the detector invoked.
EmptyResult ==
  /\ resp.status = 200
  /\ resp.anomalies = << >>
  /\ resp.anomaly_count = 0
  /\ resp.total_records = 0
  /\ resp.anomaly_percentage.num = 0
  /\ ~resp.ran

\* C5 as stated: a /anomalies request with a parseable start_date after
\* every loaded record returns the empty result without invoking the scaler
\* or the detector, whatever its other arguments.
C5_LateStartDateAsStated == StartAfterAllRecords => EmptyResult

\* A date argument the filter accepts: absent, empty, or parseable without
\* a UTC offset.
AcceptedDate(text) ==
  \/ text \in {NoArg, ""}
  \/ ~pd_to_datetime(text).nat /\ ~pd_to_datetime(text).tz

\* C5: a /anomalies request with a parseable start_date without UTC offset
\* after every loaded record, and an end_date that is absent or parseable
\* without UTC offset, returns the empty result without invoking the scaler
\* or the detector.
C5_LateStartDate ==
  ( /\ StartAfterAllRecords
    /\ AcceptedDate(resp.req.start_date)
    /\ AcceptedDate(resp.req.end_date) ) => EmptyResult

\* A late start_date filtered every record of a dataset that has records.
C5_Witness ==
  /\ StartAfterAllRecords
  /\ AcceptedDate(resp.req.start_date)
  /\ AcceptedDate(resp.req.end_date)
  /\ Len(DefaultRows) > 0
  /\ EmptyResult

\* C7: a successful response of /predict, /anomalies or
\* /analyze-default-data lists at most 1000 anomalies.
C7_AtMostThousandAnomalies ==
  (resp.op \in PredictionOps /\ resp.status = 200) =>
    Len(resp.anomalies) <= max_anomalies

\* A row of a file read with separator sep keeps all its values: the
\* separator is the file's, every cell outside the Date/Time pair is a
\* number, and the pair, when the header has both, is a date in the
\* day/month/year form.
Survives(content, sep, row) ==
  LET pair == IF {"Date", "Time"} \subseteq content.cols THEN {"Date", "Time"} ELSE {}
  IN /\ content.delim = sep
     /\ \A c \in content.cols \ pair : IsNumText(RawCell(row, c))
     /\ pair # {} => \E i \in DOMAIN DateText : DateText[i] = row.Date

\* The frame df holds the surviving rows of the content, in order and with
\* their values, and nothing else.
HoldsSurvivors(df, content, sep) ==
  LET Test(row) == Survives(content, sep, row)
      kept == SelectSeq(content.rows, Test)
  IN /\ Len(df.rows) = Len(kept)
     /\ \A j \in DOMAIN df.rows : \A c \in df.cols :
          /\ df.rows[j][c].k # "nan"
          /\ c # "Datetime" => /\ c \in content.cols
                                /\ df.rows[j][c] = Num(NumValue(RawCell(kept[j], c)))
          /\ c = "Datetime" =>
               \E i \in DOMAIN DateText :
                 DateText[i] = kept[j].Date /\ df.rows[j][c] = Ts(DayOf[i])

\* C6: on each loading path the rows with a "?" or another non-numeric
\* value outside the timestamp, or with an unparseable Date/Time pair, are
\* absent from the frame, the rows that remain have no missing value, and
\* the upload of a .txt file yields the frame load_default_dataset yields
\* for the same content.
C6_LoadersDropBadRows ==
  /\ loaded.default.done => HoldsSurvivors(loaded.default.df, loaded.content, ";")
  /\ (loaded.upload.done /\ loaded.ext = ".txt") =>
       loaded.upload.status = 200
       /\ HoldsSurvivors(loaded.upload.df, loaded.content, ";")
  /\ (loaded.upload.done /\ loaded.ext = ".csv") =>
       loaded.upload.status = 200
       /\ HoldsSurvivors(loaded.upload.df, loaded.content, ",")
  /\ (loaded.default.done /\ loaded.upload.done /\ loaded.ext = ".txt") =>
       loaded.upload.df = loaded.default.df

\* Both loaders read a two-row .txt file with a "?" in one row: each dropped
\* that row and kept the other.
C6_Witness ==
  /\ loaded.default.done /\ loaded.upload.done
  /\ loaded.ext = ".txt" /\ loaded.content.delim = ";"
  /\ Len(loaded.content.rows) = 2
  /\ \E i \in DOMAIN loaded.content.rows : loaded.content.rows[i].lit = "?"
  /\ Len(loaded.default.df.rows) = 1
  /\ Len(loaded.upload.df.rows) = 1

\* C8: a /predict suspended at its read works, once resumed, with the pair
\* that is in memory at that moment and not with the pair it checked when
\* it was received: what a /train handled in between assigned shows
\* through, also when it assigned the scaler only.
C8_PredictReadsSharedPair ==
  (resp.op = "predict" /\ resp.ran) =>
    resp.usedModel = model /\ resp.usedScaler = scaler

\* A /predict received with a pair in memory worked with another scaler and
\* the same detector: a /train handled while it was suspended replaced the
\* scaler and not the detector.
C8_Witness ==
  /\ resp.op = "predict" /\ resp.ran
  /\ resp.startModel # None_ /\ resp.startScaler # None_
  /\ resp.usedScaler # resp.startScaler
  /\ resp.usedModel = resp.startModel

\* What load_model is to return for the files d.
LoadRule(d) ==
  IF d[DEFAULT_MODEL_FILE].k = "pickle" /\ d[DEFAULT_SCALER_FILE].k = "pickle"
  THEN << d[DEFAULT_MODEL_FILE].obj, d[DEFAULT_SCALER_FILE].obj >>
  ELSE IF /\ d[DEFAULT_MODEL_FILE].k = "absent" \/ d[DEFAULT_SCALER_FILE].k = "absent"
          /\ d[MODEL_PATH_MODEL].k = "pickle" /\ d[MODEL_PATH_SCALER].k = "pickle"
  THEN << d[MODEL_PATH_MODEL].obj, d[MODEL_PATH_SCALER].obj >>
  ELSE NoPair

\* C9: the pair load_model left in memory, at the start and in the requests
\* that call it, is the primary pair when both primary files deserialize,
\* the pair of the models directory when a primary file is missing and both
\* files of the directory deserialize, and (None, None) otherwise; it is
\* never one object of each location nor a single None.
C9_LoadModelPairs ==
  /\ << model, scaler >> = LoadRule(disk)
  /\ (model = None_) <=> (scaler = None_)
  /\ << model, scaler >> \in { NoPair, << OldModel, OldScaler >>, << OtherModel, OtherScaler >> }

\* A /anomalies request called load_model on an unreadable primary model
\* beside a sound models directory, and got (None, None).
C9_Witness ==
  /\ resp.op = "anomalies" /\ resp.startModel = None_
  /\ disk[DEFAULT_MODEL_FILE] = Corrupt /\ disk[DEFAULT_SCALER_FILE] = Pickle(OldScaler)
  /\ disk[MODEL_PATH_MODEL] = Pickle(OtherModel)
  /\ disk[MODEL_PATH_SCALER] = Pickle(OtherScaler)
  /\ << model, scaler >> = NoPair

\* C10: a /train that returned success leaves its detector and scaler in
\* memory and in all four files, and every prediction request that reaches
\* the scaler afterwards works with the pair of the last successful /train.
C10_TrainedPairServes ==
  /\ (resp.op = "train" /\ resp.status = 200) =>
       /\ model = resp.usedModel /\ scaler = resp.usedScaler
       /\ disk = Disk(Pickle(model), Pickle(scaler), Pickle(model), Pickle(scaler))
  /\ (hist.trained # NoPair /\ resp.op \in PredictionOps /\ resp.ran) =>
       /\ resp.usedModel = hist.trained[1]
       /\ resp.usedScaler = hist.trained[2]

\* C11: a /train request that ends in an error response leaves the global
\* model and scaler as they were when the request began.
C11_FailedTrainKeepsPair ==
  (resp.op = "train" /\ resp.status # 200) =>
    /\ model = resp.startModel
    /\ scaler = resp.startScaler

====
